---- MODULE Spec2Model ----
(***************************************************************************)
(* Model of the nsc_frame crate (nsc_frame/src/lib.rs) and of the          *)
(* TickArbiter of examples/hello_stepper/src/main.rs.                      *)
(*                                                                         *)
(* A Driver owns a Frame, a FrameStepper backend and an Arbiter.  The      *)
(* frame is one record with the fields of struct Frame.  Option<T> values  *)
(* are sequences of length 0 (None) or 1 (Some).  Result<T, String> values *)
(* are records [is_ok, value, error].                                      *)
(***************************************************************************)
EXTENDS Integers, Sequences, FiniteSets, TLC

VARIABLES
    frame,         \* Driver.frame : Frame<NoopMem>
    arbiter,       \* Driver.arbiter : [kind, ticks]
    stepper,       \* Driver.stepper : which backend the driver was built with
    pc,            \* "idle", or "running" inside run_to_completion's loop
    ret,           \* what the last Driver::step (or direct backend step) call returned
    runRet,        \* what the last finished run_to_completion call returned
    decision,      \* what decide() returned in the last step call (None if not asked)
    op,            \* the last call that acted on the frame: "new", "step", "cancel",
                   \* or "stepper" for a backend step called past the driver
    stepCalls,     \* number of Driver::step calls made so far
    decideCalls,   \* number of Arbiter::decide calls made so far
    stepperCalls,  \* number of FrameStepper::step calls made so far
    cancelCalls,   \* number of external Frame::cancel calls made so far
    yieldCalls,    \* number of step calls so far in which decide() said Yield
    runCalls,      \* step calls made by the current/last run_to_completion
    callParity     \* parity of the number of Driver::step calls made so far

vars == <<frame, arbiter, stepper, pc, ret, runRet, decision, op,
          stepCalls, decideCalls, stepperCalls, cancelCalls, yieldCalls,
          runCalls, callParity>>

----------------------------------------------------------------------------
(* Bounds of the model *)

MaxTokensLimit == 3   \* limits.max_tokens ranges over 0..MaxTokensLimit
MaxCalls == 7         \* at most this many Driver::step calls in a run of the model
MaxCancels == 2       \* at most this many external cancel() calls
MaxPromptLen == 1     \* prompts of Frame::with_prompt have at most this length
MaxTokensMain == 10   \* the demo program is run with every limit 0..MaxTokensMain
MaxAllowsFirst == 2   \* a late-yielding arbiter allows at most this many decisions
LongRunTokens == 258  \* a limit long enough for the token ids to wrap past 255
EdgeBefore == 3       \* a run is picked up at most this many tokens before u32::MAX
EdgeAfter == 2        \* and its limit lies at most this far above 2^32

(* Program constants *)

TokenModulus == 256   \* lib.rs:244  cursor.position % 256
YieldEvery == 3       \* main.rs:15  ticks % 3 == 0
MainMaxTokens == 8    \* main.rs:26  Frame::new(mem, 8)
U16Range == 65536     \* 2^16; u32 (lib.rs:70, main.rs:9) is two 16-bit halves

----------------------------------------------------------------------------
(* Enumerations *)

FrameState == {"Prefill", "Decode", "Finished", "Cancelled"}
StepOutcome == {"Advanced", "Yielded", "Finished"}
StopReason == {"MaxTokens", "Eos", "Cancelled", "BackendError"}
Decision == {"Allow", "Yield", "Refuse"}

None == <<>>
Some(x) == <<x>>

\* u32::MAX = 2^32 - 1, recognised by its two 16-bit halves
IsU32Max(x) == x \div U16Range = U16Range - 1 /\ x % U16Range = U16Range - 1

\* u32::saturating_add(x, 1)
saturating_add_1(x) == IF IsU32Max(x) THEN x ELSE x + 1

\* u32 `+= 1`; at u32::MAX a release build wraps to 0 and a debug build
\* panics (no run within MaxCalls gets there)
wrapping_add_1(x) == IF IsU32Max(x) THEN 0 ELSE x + 1

(* Numbers at their full width.  TLC's integers stop below 2^32, so where *)
(* the top of u32 matters a number n is the pair <<n \div 2^16, n % 2^16>>; *)
(* the first component is unbounded, which leaves room for a usize.        *)

wide(n) == <<n \div U16Range, n % U16Range>>

\* usize `+= 1`
wide_inc(x) == IF x[2] = U16Range - 1 THEN <<x[1] + 1, 0>> ELSE <<x[1], x[2] + 1>>

\* `>=`
wide_geq(x, y) == x[1] > y[1] \/ (x[1] = y[1] /\ x[2] >= y[2])

\* `% m` for an m that divides 2^16
wide_mod(x, m) == x[2] % m

\* u32::MAX
wide_u32_max == <<U16Range - 1, U16Range - 1>>

\* faulty variant of wide_saturating_add_1: the cursor wraps at u32::MAX
wide_wrapping_add_1(x) == IF x = wide_u32_max THEN <<0, 0>> ELSE wide_inc(x)

\* u32::saturating_add(x, 1)
wide_saturating_add_1(x) == IF x = wide_u32_max THEN x ELSE wide_inc(x)

----------------------------------------------------------------------------
(* StepResult and Result<StepResult, String> *)

Receipt(kind, value_u64) == [kind |-> kind, value_u64 |-> value_u64]

StepResult_advanced(token) ==
    [outcome |-> "Advanced", emitted_token |-> token,
     stop_reason |-> None, receipts |-> <<>>]

\* faulty variant of StepResult_finished: the stop reason is left out
StepResult_finished_noReason(reason) ==
    [outcome |-> "Finished", emitted_token |-> None,
     stop_reason |-> None, receipts |-> <<>>]

StepResult_finished(reason) ==
    [outcome |-> "Finished", emitted_token |-> None,
     stop_reason |-> Some(reason), receipts |-> <<>>]

StepResult_yielded ==
    [outcome |-> "Yielded", emitted_token |-> None,
     stop_reason |-> None, receipts |-> <<Receipt("arbiter.yield", 1)>>]

\* the value slot of an Err, and of "no call made yet"
NoStepResult ==
    [outcome |-> "None", emitted_token |-> None,
     stop_reason |-> None, receipts |-> <<>>]

Ok(v) == [is_ok |-> TRUE, value |-> v, error |-> ""]
Err(e) == [is_ok |-> FALSE, value |-> NoStepResult, error |-> e]
NoReturn == [is_ok |-> FALSE, value |-> NoStepResult, error |-> "no call yet"]

----------------------------------------------------------------------------
(* Frame *)

Frame_with_prompt(max_tokens, prompt_token_ids) ==
    [state |-> "Prefill",
     cursor |-> [position |-> 0],
     limits |-> [max_tokens |-> max_tokens],
     mem |-> "NoopMem",
     prompt_token_ids |-> prompt_token_ids,
     prompt_index |-> 0,
     generated_token_ids |-> <<>>,
     tokens_generated |-> 0]

Frame_new(max_tokens) ==
    [state |-> "Prefill",
     cursor |-> [position |-> 0],
     limits |-> [max_tokens |-> max_tokens],
     mem |-> "NoopMem",
     prompt_token_ids |-> <<>>,
     prompt_index |-> 0,
     generated_token_ids |-> <<>>,
     tokens_generated |-> 0]

\* faulty variant of Frame_cancel: cancelling also drops the output log
Frame_cancel_clears(f) ==
    [f EXCEPT !.state = "Cancelled",
              !.generated_token_ids = <<>>,
              !.tokens_generated = 0]

\* faulty variant of Frame_cancel: a terminal frame is left as it is
Frame_cancel_guarded(f) ==
    IF f.state \in {"Finished", "Cancelled"} THEN f
    ELSE [f EXCEPT !.state = "Cancelled"]

Frame_cancel(f) == [f EXCEPT !.state = "Cancelled"]

IsTerminal(f) == f.state \in {"Finished", "Cancelled"}

----------------------------------------------------------------------------
(* Arbiters.  decide(&mut self, &Frame) -> Decision; the frame is read-only. *)

ArbiterKind == {"NoArbiter", "TickArbiter", "HostArbiter"}

\* NoArbiter::decide
NoArbiter_decide(a, f) == [arbiter |-> a, decision |-> "Allow"]

\* faulty variant of TickArbiter_decide: the tick is tested before it is counted
TickArbiter_decide_testFirst(a, f) ==
    [arbiter |-> [a EXCEPT !.ticks = wrapping_add_1(a.ticks)],
     decision |-> IF a.ticks % YieldEvery = 0 THEN "Yield" ELSE "Allow"]

\* TickArbiter::decide
TickArbiter_decide(a, f) ==
    LET ticks == wrapping_add_1(a.ticks) IN
    [arbiter |-> [a EXCEPT !.ticks = ticks],
     decision |-> IF ticks % YieldEvery = 0 THEN "Yield" ELSE "Allow"]

\* any other implementation of trait Arbiter: its verdict is an input
HostArbiter_decide(a, f, choice) == [arbiter |-> a, decision |-> choice]

\* an implementation of trait Arbiter that allows its first a.ticks
\* decisions and yields ever after (with ticks = 0: always yields)
LateYieldArbiter_decide(a, f) ==
    IF a.ticks > 0
    THEN [arbiter |-> [a EXCEPT !.ticks = a.ticks - 1], decision |-> "Allow"]
    ELSE [arbiter |-> a, decision |-> "Yield"]

Arbiter_decide(a, f, choice) ==
    CASE a.kind = "NoArbiter" -> NoArbiter_decide(a, f)
      [] a.kind = "TickArbiter" -> TickArbiter_decide(a, f)
      [] a.kind = "HostArbiter" -> HostArbiter_decide(a, f, choice)
      [] a.kind = "LateYieldArbiter" -> LateYieldArbiter_decide(a, f)

----------------------------------------------------------------------------
(* Backends.  step(&mut self, &mut Frame) -> Result<StepResult, String> *)

StepperKind == {"NoopStepper", "HostStepper"}

\* faulty variant of NoopStepper_prefill: the prefill step consumes a prompt
\* token without looking at the prompt's length
NoopStepper_prefill_consumes(f) ==
    [frame |-> [f EXCEPT !.state = "Decode", !.prompt_index = f.prompt_index + 1],
     ret |-> Ok(StepResult_advanced(None))]

\* faulty variant of NoopStepper_prefill: with nothing to generate the frame
\* is finished at once
NoopStepper_prefill_finishesEmpty(f) ==
    IF f.limits.max_tokens = 0
    THEN [frame |-> [f EXCEPT !.state = "Finished"],
          ret |-> Ok(StepResult_finished("MaxTokens"))]
    ELSE [frame |-> [f EXCEPT !.state = "Decode"],
          ret |-> Ok(StepResult_advanced(None))]

\* NoopStepper::step, arm FrameState::Prefill
NoopStepper_prefill(f) ==
    [frame |-> [f EXCEPT !.state = "Decode"],
     ret |-> Ok(StepResult_advanced(None))]

\* faulty variant of NoopStepper_decode: finishing resets the cursor
NoopStepper_decode_resetsCursor(f) ==
    IF f.tokens_generated >= f.limits.max_tokens
    THEN [frame |-> [f EXCEPT !.state = "Finished", !.cursor.position = 0],
          ret |-> Ok(StepResult_finished("MaxTokens"))]
    ELSE LET tok == f.cursor.position % TokenModulus IN
         [frame |-> [f EXCEPT
               !.generated_token_ids = Append(f.generated_token_ids, tok),
               !.tokens_generated = f.tokens_generated + 1,
               !.cursor.position = saturating_add_1(f.cursor.position)],
          ret |-> Ok(StepResult_advanced(Some(tok)))]

\* faulty variant of NoopStepper_decode: the token is pushed but not counted
NoopStepper_decode_noCount(f) ==
    IF f.tokens_generated >= f.limits.max_tokens
    THEN [frame |-> [f EXCEPT !.state = "Finished"],
          ret |-> Ok(StepResult_finished("MaxTokens"))]
    ELSE LET tok == f.cursor.position % TokenModulus IN
         [frame |-> [f EXCEPT
               !.generated_token_ids = Append(f.generated_token_ids, tok),
               !.cursor.position = saturating_add_1(f.cursor.position)],
          ret |-> Ok(StepResult_advanced(Some(tok)))]

\* faulty variant of NoopStepper_decode: the limit test is > instead of >=
NoopStepper_decode_offByOne(f) ==
    IF f.tokens_generated > f.limits.max_tokens
    THEN [frame |-> [f EXCEPT !.state = "Finished"],
          ret |-> Ok(StepResult_finished("MaxTokens"))]
    ELSE LET tok == f.cursor.position % TokenModulus IN
         [frame |-> [f EXCEPT
               !.generated_token_ids = Append(f.generated_token_ids, tok),
               !.tokens_generated = f.tokens_generated + 1,
               !.cursor.position = saturating_add_1(f.cursor.position)],
          ret |-> Ok(StepResult_advanced(Some(tok)))]

\* faulty variant of NoopStepper_decode: a hidden loop, two tokens per call
\* while there is room for two
NoopStepper_decode_twoTokens(f) ==
    IF f.tokens_generated >= f.limits.max_tokens
    THEN [frame |-> [f EXCEPT !.state = "Finished"],
          ret |-> Ok(StepResult_finished("MaxTokens"))]
    ELSE LET tok == f.cursor.position % TokenModulus
             tok2 == saturating_add_1(f.cursor.position) % TokenModulus
         IN IF f.tokens_generated + 2 <= f.limits.max_tokens
            THEN [frame |-> [f EXCEPT
                    !.generated_token_ids = Append(Append(f.generated_token_ids, tok), tok2),
                    !.tokens_generated = f.tokens_generated + 2,
                    !.cursor.position = saturating_add_1(saturating_add_1(f.cursor.position))],
                  ret |-> Ok(StepResult_advanced(Some(tok2)))]
            ELSE [frame |-> [f EXCEPT
                    !.generated_token_ids = Append(f.generated_token_ids, tok),
                    !.tokens_generated = f.tokens_generated + 1,
                    !.cursor.position = saturating_add_1(f.cursor.position)],
                  ret |-> Ok(StepResult_advanced(Some(tok)))]

\* faulty variant of NoopStepper_decode: at the limit the frame is left in
\* Decode and the call reports Advanced
NoopStepper_decode_neverFinishes(f) ==
    IF f.tokens_generated >= f.limits.max_tokens
    THEN [frame |-> f, ret |-> Ok(StepResult_advanced(None))]
    ELSE LET tok == f.cursor.position % TokenModulus IN
         [frame |-> [f EXCEPT
               !.generated_token_ids = Append(f.generated_token_ids, tok),
               !.tokens_generated = f.tokens_generated + 1,
               !.cursor.position = saturating_add_1(f.cursor.position)],
          ret |-> Ok(StepResult_advanced(Some(tok)))]

\* NoopStepper::step, arm FrameState::Decode
NoopStepper_decode(f) ==
    IF f.tokens_generated >= f.limits.max_tokens
    THEN [frame |-> [f EXCEPT !.state = "Finished"],
          ret |-> Ok(StepResult_finished("MaxTokens"))]
    ELSE LET tok == f.cursor.position % TokenModulus IN
         [frame |-> [f EXCEPT
               !.generated_token_ids = Append(f.generated_token_ids, tok),
               !.tokens_generated = f.tokens_generated + 1,
               !.cursor.position = saturating_add_1(f.cursor.position)],
          ret |-> Ok(StepResult_advanced(Some(tok)))]

\* faulty variant of NoopStepper_step: a terminal frame is refused with an error
NoopStepper_step_rejectsTerminal(f) ==
    CASE f.state = "Prefill" -> NoopStepper_prefill(f)
      [] f.state = "Decode" -> NoopStepper_decode(f)
      [] f.state = "Finished" -> [frame |-> f, ret |-> Err("frame is terminal")]
      [] f.state = "Cancelled" -> [frame |-> f, ret |-> Err("frame is terminal")]

\* NoopStepper::step
NoopStepper_step(f) ==
    CASE f.state = "Prefill" -> NoopStepper_prefill(f)
      [] f.state = "Decode" -> NoopStepper_decode(f)
      [] f.state = "Finished" ->
           [frame |-> f, ret |-> Ok(StepResult_finished("MaxTokens"))]
      [] f.state = "Cancelled" ->
           [frame |-> f, ret |-> Ok(StepResult_finished("Cancelled"))]

\* NoopStepper::step, arm FrameState::Decode, on a frame whose numbers are
\* wide and whose generated_token_ids is the window [base, tail]: the
\* elements from index base on
NoopStepper_decode_wide(f) ==
    IF wide_geq(f.tokens_generated, f.limits.max_tokens)
    THEN [frame |-> [f EXCEPT !.state = "Finished"],
          ret |-> Ok(StepResult_finished("MaxTokens"))]
    ELSE LET tok == wide_mod(f.cursor.position, TokenModulus) IN
         [frame |-> [f EXCEPT
               !.generated_token_ids.tail = Append(f.generated_token_ids.tail, tok),
               !.tokens_generated = wide_inc(f.tokens_generated),
               !.cursor.position = wide_saturating_add_1(f.cursor.position)],
          ret |-> Ok(StepResult_advanced(Some(tok)))]

\* NoopStepper::step on such a frame
NoopStepper_step_wide(f) ==
    CASE f.state = "Prefill" -> NoopStepper_prefill(f)
      [] f.state = "Decode" -> NoopStepper_decode_wide(f)
      [] f.state = "Finished" ->
           [frame |-> f, ret |-> Ok(StepResult_finished("MaxTokens"))]
      [] f.state = "Cancelled" ->
           [frame |-> f, ret |-> Ok(StepResult_finished("Cancelled"))]

\* A backend whose step can take the Err arm of the trait's return type:
\* when `fail` it returns a fatal error and leaves the frame as it was,
\* otherwise it does the no-op backend's work.
HostStepper_step(f, fail) ==
    IF fail THEN [frame |-> f, ret |-> Err("backend failed")]
            ELSE NoopStepper_step(f)

FrameStepper_step(s, f, fail) ==
    CASE s = "NoopStepper" -> NoopStepper_step(f)
      [] s = "HostStepper" -> HostStepper_step(f, fail)
      [] s = "NoopStepper/wide" -> NoopStepper_step_wide(f)

----------------------------------------------------------------------------
(* Driver *)

\* A Driver::step call yields the new frame and arbiter, the returned value,
\* the verdict of decide() (None when it was not called) and the number of
\* calls it made to the backend's step().

\* faulty variant of Driver_step_terminal: one stop reason for both terminal states
Driver_step_terminal_oneReason(f, a) ==
    [frame |-> f, arbiter |-> a,
     ret |-> Ok(StepResult_finished("MaxTokens")),
     decision |-> None, stepped |-> 0]

\* Driver::step, the match on a terminal frame.state
Driver_step_terminal(f, a) ==
    [frame |-> f, arbiter |-> a,
     ret |-> IF f.state = "Finished"
             THEN Ok(StepResult_finished("MaxTokens"))
             ELSE Ok(StepResult_finished("Cancelled")),
     decision |-> None, stepped |-> 0]

\* faulty variant of Driver_step_allow: a backend error is turned into a
\* Finished(BackendError) result on a cancelled frame
Driver_step_allow_wrapsError(f, a, s, fail) ==
    LET r == FrameStepper_step(s, f, fail) IN
    IF r.ret.is_ok
    THEN [frame |-> r.frame, arbiter |-> a, ret |-> r.ret,
          decision |-> Some("Allow"), stepped |-> 1]
    ELSE [frame |-> [r.frame EXCEPT !.state = "Cancelled"], arbiter |-> a,
          ret |-> Ok(StepResult_finished("BackendError")),
          decision |-> Some("Allow"), stepped |-> 1]

\* Driver::step, arm Decision::Allow (a: the arbiter after decide())
Driver_step_allow(f, a, s, fail) ==
    LET r == FrameStepper_step(s, f, fail) IN
    [frame |-> r.frame, arbiter |-> a, ret |-> r.ret,
     decision |-> Some("Allow"), stepped |-> 1]

\* faulty variant of Driver_step_yield: a skipped step still moves the cursor
Driver_step_yield_advances(f, a) ==
    [frame |-> [f EXCEPT !.cursor.position = saturating_add_1(f.cursor.position)],
     arbiter |-> a, ret |-> Ok(StepResult_yielded),
     decision |-> Some("Yield"), stepped |-> 0]

\* Driver::step, arm Decision::Yield
Driver_step_yield(f, a) ==
    [frame |-> f, arbiter |-> a, ret |-> Ok(StepResult_yielded),
     decision |-> Some("Yield"), stepped |-> 0]

\* faulty variant of Driver_step_refuse: reports the cancellation, forgets to cancel
Driver_step_refuse_reportOnly(f, a) ==
    [frame |-> f, arbiter |-> a,
     ret |-> Ok(StepResult_finished("Cancelled")),
     decision |-> Some("Refuse"), stepped |-> 0]

\* Driver::step, arm Decision::Refuse
Driver_step_refuse(f, a) ==
    [frame |-> Frame_cancel(f), arbiter |-> a,
     ret |-> Ok(StepResult_finished("Cancelled")),
     decision |-> Some("Refuse"), stepped |-> 0]

\* faulty variant of Driver_step: decide() is asked before the frame's state
\* is looked at
Driver_step_decideFirst(f, a, s, choice, fail) ==
    LET d == Arbiter_decide(a, f, choice) IN
    IF IsTerminal(f)
    THEN [Driver_step_terminal(f, d.arbiter) EXCEPT !.decision = Some(d.decision)]
    ELSE CASE d.decision = "Allow" -> Driver_step_allow(f, d.arbiter, s, fail)
           [] d.decision = "Yield" -> Driver_step_yield(f, d.arbiter)
           [] d.decision = "Refuse" -> Driver_step_refuse(f, d.arbiter)

\* Driver::step.  `choice` and `fail` are the inputs of a host arbiter and of
\* a host backend.
Driver_step(f, a, s, choice, fail) ==
    IF IsTerminal(f) THEN Driver_step_terminal(f, a)
    ELSE LET d == Arbiter_decide(a, f, choice) IN
         CASE d.decision = "Allow" -> Driver_step_allow(f, d.arbiter, s, fail)
           [] d.decision = "Yield" -> Driver_step_yield(f, d.arbiter)
           [] d.decision = "Refuse" -> Driver_step_refuse(f, d.arbiter)

\* faulty variant of run_to_completion_after: a step that emits no token is
\* taken for the end of the run
run_to_completion_after_tokenless(r) ==
    IF ~r.is_ok THEN [returns |-> TRUE, value |-> Err(r.error)]
    ELSE IF r.value.emitted_token = None
         THEN [returns |-> TRUE, value |-> Ok(NoStepResult)]
         ELSE [returns |-> FALSE, value |-> NoReturn]

\* One pass of run_to_completion's loop body after `let r = self.step()`:
\* `?` returns the error, a Finished outcome returns Ok(()), else loop again.
run_to_completion_after(r) ==
    IF ~r.is_ok THEN [returns |-> TRUE, value |-> Err(r.error)]
    ELSE IF r.value.outcome = "Finished"
         THEN [returns |-> TRUE, value |-> Ok(NoStepResult)]
         ELSE [returns |-> FALSE, value |-> NoReturn]

----------------------------------------------------------------------------
(* Initial states: a Driver built by Driver::new or Driver::with_arbiter  *)
(* around a frame fresh from Frame::new or Frame::with_prompt.            *)

PromptTokens == {7}

Prompts == UNION {[1..n -> PromptTokens] : n \in 0..MaxPromptLen}

InitFrames ==
    {Frame_new(n) : n \in 0..MaxTokensLimit}
    \cup {Frame_with_prompt(n, p) : n \in 0..MaxTokensLimit, p \in Prompts}

Init ==
    /\ frame \in InitFrames
    /\ arbiter \in {[kind |-> k, ticks |-> 0] : k \in ArbiterKind}
    /\ stepper \in StepperKind
    /\ pc = "idle"
    /\ ret = NoReturn
    /\ runRet = NoReturn
    /\ decision = None
    /\ op = "new"
    /\ stepCalls = 0
    /\ decideCalls = 0
    /\ stepperCalls = 0
    /\ cancelCalls = 0
    /\ yieldCalls = 0
    /\ runCalls = 0
    /\ callParity = 0

\* the effect of one Driver::step call on the driver and on the call counters
DoStep(choice, fail) ==
    LET r == Driver_step(frame, arbiter, stepper, choice, fail) IN
    /\ frame' = r.frame
    /\ arbiter' = r.arbiter
    /\ ret' = r.ret
    /\ decision' = r.decision
    /\ stepCalls' = stepCalls + 1
    /\ callParity' = 1 - callParity
    /\ decideCalls' = decideCalls + Len(r.decision)
    /\ stepperCalls' = stepperCalls + r.stepped
    /\ yieldCalls' = yieldCalls + (IF r.decision = Some("Yield") THEN 1 ELSE 0)
    /\ op' = "step"

\* the host calls driver.step()
Step ==
    /\ pc = "idle"
    /\ stepCalls < MaxCalls
    /\ \E choice \in Decision, fail \in BOOLEAN : DoStep(choice, fail)
    /\ UNCHANGED <<stepper, pc, runRet, cancelCalls, runCalls>>

\* the host calls driver.frame.cancel()
Cancel ==
    /\ pc = "idle"
    /\ cancelCalls < MaxCancels
    /\ frame' = Frame_cancel(frame)
    /\ cancelCalls' = cancelCalls + 1
    /\ op' = "cancel"
    /\ UNCHANGED <<arbiter, stepper, pc, ret, runRet, decision,
                   stepCalls, decideCalls, stepperCalls, yieldCalls, runCalls,
                   callParity>>

\* the host calls driver.run_to_completion(): control enters the loop
RunBegin ==
    /\ pc = "idle"
    /\ stepCalls < MaxCalls
    /\ pc' = "running"
    /\ runCalls' = 0
    /\ UNCHANGED <<frame, arbiter, stepper, ret, runRet, decision, op,
                   stepCalls, decideCalls, stepperCalls, cancelCalls,
                   yieldCalls, callParity>>

\* one iteration of run_to_completion's loop
RunIter ==
    /\ pc = "running"
    /\ stepCalls < MaxCalls
    /\ \E choice \in Decision, fail \in BOOLEAN : DoStep(choice, fail)
    /\ runCalls' = runCalls + 1
    /\ LET after == run_to_completion_after(ret') IN
       /\ pc' = IF after.returns THEN "idle" ELSE "running"
       /\ runRet' = IF after.returns THEN after.value ELSE runRet
    /\ UNCHANGED <<stepper, cancelCalls>>

Next == Step \/ Cancel \/ RunBegin \/ RunIter

Spec == Init /\ [][Next]_vars

----------------------------------------------------------------------------
(* The demo program, examples/hello_stepper main(): a TickArbiter driver    *)
(* around Frame::new(mem, 8) and a loop of step() calls that breaks at the  *)
(* first Finished outcome.  The limit ranges over 0..MaxTokensMain, which   *)
(* includes the program's own 8.                                            *)

MainInit ==
    /\ frame \in {Frame_new(n) : n \in 0..MaxTokensMain}
    /\ arbiter = [kind |-> "TickArbiter", ticks |-> 0]
    /\ stepper = "NoopStepper"
    /\ pc = "main_loop"
    /\ ret = NoReturn
    /\ runRet = NoReturn
    /\ decision = None
    /\ op = "new"
    /\ stepCalls = 0
    /\ decideCalls = 0
    /\ stepperCalls = 0
    /\ cancelCalls = 0
    /\ yieldCalls = 0
    /\ runCalls = 0
    /\ callParity = 0

\* one iteration of main's loop: step().expect(..), then the match on r.outcome
MainLoop ==
    /\ pc = "main_loop"
    /\ \E choice \in Decision, fail \in BOOLEAN : DoStep(choice, fail)
    /\ pc' = IF ~ret'.is_ok THEN "main_panic"
             ELSE IF ret'.value.outcome = "Finished" THEN "main_exit"
             ELSE "main_loop"
    /\ UNCHANGED <<stepper, runRet, cancelCalls, runCalls>>

MainNext == MainLoop

MainSpec == MainInit /\ [][MainNext]_vars

---------------------------------------------------------------------------------------------------------------------------------------------------
(* A host that also calls the backend past the driver: stepper and frame   *)
(* are public fields, so driver.stepper.step(&mut driver.frame) is a call  *)
(* a host can make in any frame state, terminal ones included.             *)

StepperDirect ==
    /\ pc = "idle"
    /\ stepperCalls < MaxCalls
    /\ \E fail \in BOOLEAN :
          LET r == FrameStepper_step(stepper, frame, fail) IN
          /\ frame' = r.frame
          /\ ret' = r.ret
    /\ stepperCalls' = stepperCalls + 1
    /\ decision' = None
    /\ op' = "stepper"
    /\ UNCHANGED <<arbiter, stepper, pc, runRet, stepCalls, decideCalls,
                   cancelCalls, yieldCalls, runCalls, callParity>>

\* the driver of such a host is built by Driver::new (always-Allow arbiter)
DirectInit == Init /\ arbiter.kind = "NoArbiter"

DirectNext == Step \/ Cancel \/ StepperDirect

DirectSpec == DirectInit /\ [][DirectNext]_vars

----------------------------------------------------------------------------
(* run_to_completion() called on a fresh driver with the no-op backend and *)
(* an arbiter that never refuses, followed for as long as it runs.  The    *)
(* call counters are not kept (a run that yields for ever would count for  *)
(* ever); callParity makes every call a step of the model.  The loop of    *)
(* lib.rs:214-220 has no exit but its two returns, so while it has not     *)
(* returned the next step() call does happen: weak fairness of LiveIter.   *)

LiveArbiters ==
    {[kind |-> k, ticks |-> 0] : k \in ArbiterKind}
    \cup {[kind |-> "LateYieldArbiter", ticks |-> n] : n \in 0..MaxAllowsFirst}

LiveInit ==
    /\ frame \in InitFrames
    /\ arbiter \in LiveArbiters
    /\ stepper = "NoopStepper"
    /\ pc = "running"
    /\ ret = NoReturn
    /\ runRet = NoReturn
    /\ decision = None
    /\ op = "new"
    /\ stepCalls = 0
    /\ decideCalls = 0
    /\ stepperCalls = 0
    /\ cancelCalls = 0
    /\ yieldCalls = 0
    /\ runCalls = 0
    /\ callParity = 0

\* one iteration of run_to_completion's loop; a host arbiter says Allow or Yield
LiveIter ==
    /\ pc = "running"
    /\ \E choice \in {"Allow", "Yield"} :
          LET r == Driver_step(frame, arbiter, stepper, choice, FALSE) IN
          /\ frame' = r.frame
          /\ arbiter' = r.arbiter
          /\ ret' = r.ret
          /\ decision' = r.decision
    /\ callParity' = 1 - callParity
    /\ op' = "step"
    /\ LET after == run_to_completion_after(ret') IN
       /\ pc' = IF after.returns THEN "idle" ELSE "running"
       /\ runRet' = IF after.returns THEN after.value ELSE runRet
    /\ UNCHANGED <<stepper, stepCalls, decideCalls, stepperCalls, cancelCalls,
                   yieldCalls, runCalls>>

LiveNext == LiveIter

LiveSpec == LiveInit /\ [][LiveNext]_vars /\ WF_vars(LiveIter)

----------------------------------------------------------------------------
(* The no-op backend at full width.  Frames hold wide numbers; a frame is  *)
(* either fresh from Frame::new, or the frame of a run with a limit above  *)
(* 2^32 picked up a few tokens before the cursor reaches u32::MAX (counting *)
(* up to there is out of reach, and so is a sequence that long: of         *)
(* generated_token_ids the frame keeps the elements from index base on).   *)
(* Any Decision and cancel() may come at any time; the call counters are   *)
(* not kept, so that a run can be as long as its limit asks.               *)

WideFrame_new(max_tokens) ==
    [state |-> "Prefill",
     cursor |-> [position |-> wide(0)],
     limits |-> [max_tokens |-> max_tokens],
     mem |-> "NoopMem",
     prompt_token_ids |-> <<>>,
     prompt_index |-> 0,
     generated_token_ids |-> [base |-> wide(0), tail |-> <<>>],
     tokens_generated |-> wide(0)]

\* the frame after n Decode steps, n < 2^32, of a run with limit max_tokens > n
WideFrame_after(n, max_tokens) ==
    [state |-> "Decode",
     cursor |-> [position |-> n],
     limits |-> [max_tokens |-> max_tokens],
     mem |-> "NoopMem",
     prompt_token_ids |-> <<>>,
     prompt_index |-> 0,
     generated_token_ids |-> [base |-> n, tail |-> <<>>],
     tokens_generated |-> n]

WideInitFrames ==
    {WideFrame_new(wide(n)) : n \in (0..MaxTokensLimit) \cup {LongRunTokens}}
    \cup {WideFrame_after(<<U16Range - 1, U16Range - d>>, <<U16Range, m>>) :
             d \in 1..EdgeBefore, m \in 0..EdgeAfter}

WideInit ==
    /\ frame \in WideInitFrames
    /\ arbiter = [kind |-> "HostArbiter", ticks |-> 0]
    /\ stepper = "NoopStepper/wide"
    /\ pc = "idle"
    /\ ret = NoReturn
    /\ runRet = NoReturn
    /\ decision = None
    /\ op = "new"
    /\ stepCalls = 0
    /\ decideCalls = 0
    /\ stepperCalls = 0
    /\ cancelCalls = 0
    /\ yieldCalls = 0
    /\ runCalls = 0
    /\ callParity = 0

\* the host calls driver.step()
WideStep ==
    /\ \E choice \in Decision :
          LET r == Driver_step(frame, arbiter, stepper, choice, FALSE) IN
          /\ frame' = r.frame
          /\ arbiter' = r.arbiter
          /\ ret' = r.ret
          /\ decision' = r.decision
    /\ callParity' = 1 - callParity
    /\ op' = "step"
    /\ UNCHANGED <<stepper, pc, runRet, stepCalls, decideCalls, stepperCalls,
                   cancelCalls, yieldCalls, runCalls>>

\* the host calls driver.frame.cancel()
WideCancel ==
    /\ frame' = Frame_cancel(frame)
    /\ op' = "cancel"
    /\ UNCHANGED <<arbiter, stepper, pc, ret, runRet, decision, stepCalls,
                   decideCalls, stepperCalls, cancelCalls, yieldCalls, runCalls,
                   callParity>>

WideNext == WideStep \/ WideCancel

WideSpec == WideInit /\ [][WideNext]_vars

-----
(* Properties *)

\* this step of the model is a Driver::step call (made by the host or by
\* run_to_completion)
IsStepCall == stepCalls' = stepCalls + 1

\* this step of the model is an external Frame::cancel call
IsCancelCall == cancelCalls' = cancelCalls + 1

\* the Finished result Driver::step reports for a terminal state
TerminalReport(st) ==
    Ok(StepResult_finished(IF st = "Finished" THEN "MaxTokens" ELSE "Cancelled"))

\* C1 - Idempotent termination: a Driver::step call on a Finished or
\* Cancelled frame changes neither the frame nor the arbiter, calls neither
\* decide() nor the backend, returns Finished without a token, and when the
\* frame was left terminal by a step call it returns exactly what that call
\* returned (the same stop reason).
C1_IdempotentTermination ==
    [][(IsTerminal(frame) /\ IsStepCall) =>
          /\ frame' = frame
          /\ arbiter' = arbiter
          /\ ret' = TerminalReport(frame.state)
          /\ ret'.value.outcome = "Finished"
          /\ ret'.value.emitted_token = None
          /\ (op = "step" => ret' = ret)]_vars

\* C1 witness: a second step call on a frame a Refuse had cancelled, and the
\* frame still holding its tokens
C1_Witness ==
    /\ frame.state = "Cancelled"
    /\ cancelCalls = 0
    /\ op = "step"
    /\ decision = None
    /\ frame.tokens_generated >= 1
    /\ ret = Ok(StepResult_finished("Cancelled"))

\* C2 as claimed - Finished and Cancelled are absorbing under every public
\* operation: once the frame is terminal no step of the model changes it.
C2_AbsorbingAsClaimed ==
    [][IsTerminal(frame) => frame' = frame]_vars

\* C2 - Cancelled is absorbing under every public operation; Finished is
\* absorbing under step() and run_to_completion(), and cancel() on a
\* Finished frame sets state to Cancelled and changes no other field.
C2_Absorbing ==
    [][/\ frame.state = "Cancelled" => frame' = frame
       /\ frame.state = "Finished" =>
             IF IsCancelCall
             THEN frame' = [frame EXCEPT !.state = "Cancelled"]
             ELSE frame' = frame]_vars

\* C2 witness: cancel() has just been called on a frame that the no-op
\* backend had finished, and the tokens are still there
C2_Witness ==
    /\ arbiter.kind = "NoArbiter"
    /\ frame.limits.max_tokens >= 1
    /\ stepCalls >= frame.limits.max_tokens + 2
    /\ cancelCalls = 1
    /\ op = "cancel"
    /\ frame.state = "Cancelled"
    /\ frame.tokens_generated = frame.limits.max_tokens

\* C3 - Yield purity: a step call in which decide() says Yield does not call
\* the backend, leaves the frame unchanged and returns Yielded with no token
\* and no stop reason; as long as every step call so far has yielded (and
\* nobody cancelled) the frame is a fresh Prefill frame, not a terminal one.
C3_YieldPurity ==
    /\ [][(IsStepCall /\ decision' = Some("Yield")) =>
             /\ frame' = frame
             /\ stepperCalls' = stepperCalls
             /\ ret'.is_ok
             /\ ret'.value.outcome = "Yielded"
             /\ ret'.value.emitted_token = None
             /\ ret'.value.stop_reason = None]_vars
    /\ []((yieldCalls = stepCalls /\ cancelCalls = 0) =>
             /\ frame.state = "Prefill"
             /\ frame \in InitFrames)

\* C3 witness: three step calls, all yielded, with the frame still in Prefill
C3_Witness ==
    /\ yieldCalls = 3
    /\ stepCalls = 3
    /\ cancelCalls = 0
    /\ frame.state = "Prefill"
    /\ ret = Ok(StepResult_yielded)

\* C4 - Refuse finality: a step call on a Prefill or Decode frame in which
\* decide() says Refuse leaves the frame Cancelled (nothing else changed) and
\* returns Finished(Cancelled); no step of the model takes a frame out of
\* Cancelled; a step call on a Cancelled frame returns Finished(Cancelled)
\* again, asks no arbiter and leaves the frame as it is.
C4_RefuseFinality ==
    [][/\ (IsStepCall /\ ~IsTerminal(frame) /\ decision' = Some("Refuse")) =>
             /\ frame' = [frame EXCEPT !.state = "Cancelled"]
             /\ ret' = Ok(StepResult_finished("Cancelled"))
       /\ (IsStepCall /\ decision' = Some("Refuse")) => frame'.state = "Cancelled"
       /\ frame.state = "Cancelled" => frame'.state = "Cancelled"
       /\ (IsStepCall /\ frame.state = "Cancelled") =>
             /\ ret' = Ok(StepResult_finished("Cancelled"))
             /\ decision' = None
             /\ frame' = frame]_vars

\* C4 witness: a Refuse has just cancelled a Decode frame holding a token
C4_Witness ==
    /\ op = "step"
    /\ decision = Some("Refuse")
    /\ cancelCalls = 0
    /\ frame.state = "Cancelled"
    /\ frame.tokens_generated >= 1
    /\ ret = Ok(StepResult_finished("Cancelled"))

\* C5 - Cursor monotonicity: no step call (whatever the decision) and no
\* cancel() call lowers frame.cursor.position.
C5_CursorMonotone ==
    [][frame'.cursor.position >= frame.cursor.position]_vars

\* C5 witness: the cursor has advanced and the frame then finished and was
\* cancelled, with step calls after that
C5_Witness ==
    /\ frame.cursor.position >= 2
    /\ frame.state = "Cancelled"
    /\ frame.tokens_generated = frame.limits.max_tokens
    /\ cancelCalls >= 1
    /\ yieldCalls >= 1
    /\ op = "step"
    /\ decision = None

\* C6 - Counter consistency: in every state, so after every step call,
\* tokens_generated is the length of generated_token_ids.
C6_CounterConsistency ==
    frame.tokens_generated = Len(frame.generated_token_ids)

\* C6 witness: a step call has just emitted the third token
C6_Witness ==
    /\ op = "step"
    /\ frame.tokens_generated = 3
    /\ ret = Ok(StepResult_advanced(Some(2)))

C8_AllowDelegates ==
    [][/\ (IsStepCall /\ decision' = Some("Allow")) =>
             /\ stepperCalls' = stepperCalls + 1
             /\ \E fail \in BOOLEAN :
                   LET r == FrameStepper_step(stepper, frame, fail) IN
                   frame' = r.frame /\ ret' = r.ret
       /\ (IsStepCall /\ pc = "running" /\ ~ret'.is_ok) =>
             /\ pc' = "idle"
             /\ runRet' = Err(ret'.error)
             /\ frame' = frame]_vars

\* C8 witness: run_to_completion has returned the error of its third step call
C8_Witness ==
    /\ pc = "idle"
    /\ runCalls = 3
    /\ decision = Some("Allow")
    /\ ret = Err("backend failed")
    /\ runRet = Err("backend failed")
    /\ frame.state = "Decode"

\* C9 - cancel() leaves the frame Cancelled whatever its state was and
\* changes no other field; a second cancel() right after changes nothing;
\* the first step call after a cancel() returns Finished(Cancelled) and
\* calls neither decide() nor the backend.
C9_Cancel ==
    [][/\ IsCancelCall =>
             /\ frame'.state = "Cancelled"
             /\ frame' = [frame EXCEPT !.state = "Cancelled"]
       /\ (IsCancelCall /\ op = "cancel") => frame' = frame
       /\ (IsStepCall /\ op = "cancel") =>
             /\ ret' = Ok(StepResult_finished("Cancelled"))
             /\ decision' = None
             /\ decideCalls' = decideCalls
             /\ stepperCalls' = stepperCalls
             /\ arbiter' = arbiter
             /\ frame' = frame]_vars

\* C9 witness: a frame finished by the no-op backend was cancelled twice and
\* then stepped
C9_Witness ==
    /\ arbiter.kind = "NoArbiter"
    /\ cancelCalls = 2
    /\ op = "step"
    /\ stepCalls = frame.limits.max_tokens + 3
    /\ frame.tokens_generated = frame.limits.max_tokens
    /\ frame.state = "Cancelled"
    /\ ret = Ok(StepResult_finished("Cancelled"))

\* C10 - Scenario A: no-op backend, always-Allow arbiter, no cancel(), limit
\* N.  After call 1 the result is Advanced without a token and the state is
\* Decode; after call k, 2 <= k <= N+1, the result is Advanced with token
\* k-2 and the cursor is k-1; call N+2 returns Finished(MaxTokens); from
\* then on generated_token_ids is <<0, ..., N-1>>.
C10_ScenarioA ==
    (arbiter.kind = "NoArbiter" /\ stepper = "NoopStepper" /\ cancelCalls = 0) =>
        LET N == frame.limits.max_tokens
            k == stepCalls
        IN /\ k = 0 => frame.state = "Prefill"
           /\ k = 1 => /\ ret = Ok(StepResult_advanced(None))
                       /\ frame.state = "Decode"
                       /\ frame.cursor.position = 0
           /\ (2 <= k /\ k <= N + 1) =>
                       /\ ret = Ok(StepResult_advanced(Some(k - 2)))
                       /\ frame.cursor.position = k - 1
                       /\ frame.state = "Decode"
           /\ k = N + 2 => /\ ret = Ok(StepResult_finished("MaxTokens"))
                           /\ frame.state = "Finished"
           /\ k >= N + 2 => frame.generated_token_ids = [i \in 1..N |-> i - 1]

\* C10 witness: the spec's run, limit 3, after call 5
C10_Witness ==
    /\ arbiter.kind = "NoArbiter"
    /\ stepper = "NoopStepper"
    /\ cancelCalls = 0
    /\ frame.limits.max_tokens = 3
    /\ stepCalls = 5
    /\ ret = Ok(StepResult_finished("MaxTokens"))
    /\ frame.generated_token_ids = <<0, 1, 2>>

\* the always-Allow run: what the frame is and what the last call returned
\* after j step calls of a Driver::new(f0, NoopStepper) driver
RECURSIVE AllowRun(_, _)
AllowRun(f0, j) ==
    IF j = 0 THEN [frame |-> f0, ret |-> NoReturn]
    ELSE LET r == Driver_step(AllowRun(f0, j - 1).frame,
                              [kind |-> "NoArbiter", ticks |-> 0],
                              "NoopStepper", "Allow", FALSE)
         IN [frame |-> r.frame, ret |-> r.ret]

\* the frame a run began with (limit and prompt are those of the frame now)
FreshFrame(f) == Frame_with_prompt(f.limits.max_tokens, f.prompt_token_ids)

\* C11 - Scenario B: no-op backend, TickArbiter, no cancel(), limit N.  After
\* k calls, all made on a non-terminal frame, k - k/3 of them were
\* Allow-gated; the frame is the frame of the always-Allow run after that
\* many calls (so a Yielded call changed nothing); call k returned Yielded
\* if 3 divides k and otherwise what the always-Allow run's call k - k/3
\* returned.  The frame is Finished exactly after N + 2 Allow-gated calls
\* and is then the final frame of the always-Allow run.
C11_ScenarioB ==
    (arbiter.kind = "TickArbiter" /\ stepper = "NoopStepper" /\ cancelCalls = 0) =>
        LET N == frame.limits.max_tokens
            k == stepCalls
            j == stepperCalls
            ref == AllowRun(FreshFrame(frame), j)
        IN /\ frame = ref.frame
           /\ decideCalls = stepCalls =>
                 /\ j = k - (k \div YieldEvery)
                 /\ (k > 0 /\ k % YieldEvery = 0) => ret = Ok(StepResult_yielded)
                 /\ (k % YieldEvery # 0) => ret = ref.ret
           /\ frame.state = "Finished" <=> j = N + 2
           /\ j <= N + 2

\* C11 witness: the demo's own run (limit 8) has finished, after 14 calls of
\* which 4 yielded
C11_Witness ==
    /\ pc = "main_exit"
    /\ frame.limits.max_tokens = MainMaxTokens
    /\ stepCalls = 14
    /\ yieldCalls = 4
    /\ stepperCalls = MainMaxTokens + 2
    /\ frame.generated_token_ids = <<0, 1, 2, 3, 4, 5, 6, 7>>

\* C12 - Scenario C and run_to_completion: no-op backend, always-Allow
\* arbiter, no cancel(), limit N, and run_to_completion() called on the
\* fresh driver.  While it loops it has made fewer than N + 2 step calls and
\* none returned Finished; when it has returned it returned Ok after exactly
\* N + 2 step calls, the last one Finished(MaxTokens), with the frame
\* Finished and N tokens emitted.  For N = 0: call 1 is Advanced without a
\* token (Prefill to Decode), call 2 is Finished(MaxTokens).
C12_RunToCompletion ==
    (/\ arbiter.kind = "NoArbiter" /\ stepper = "NoopStepper"
     /\ cancelCalls = 0 /\ stepCalls = runCalls /\ runCalls >= 1) =>
        LET N == frame.limits.max_tokens IN
        /\ runCalls <= N + 2
        /\ pc = "running" =>
              /\ runCalls < N + 2
              /\ ret.is_ok /\ ret.value.outcome = "Advanced"
              /\ frame.state = "Decode"
        /\ pc = "idle" =>
              /\ runCalls = N + 2
              /\ runRet = Ok(NoStepResult)
              /\ ret = Ok(StepResult_finished("MaxTokens"))
              /\ frame.state = "Finished"
              /\ frame.tokens_generated = N
              /\ Len(frame.generated_token_ids) = N
        /\ (N = 0 /\ runCalls = 1) =>
              /\ ret = Ok(StepResult_advanced(None))
              /\ frame.state = "Decode"
        /\ (N = 0 /\ runCalls = 2) =>
              /\ ret = Ok(StepResult_finished("MaxTokens"))
              /\ pc = "idle"

\* C12 witness: Scenario C, run_to_completion() has returned after 2 calls
\* with limit 0 and no token
C12_Witness ==
    /\ arbiter.kind = "NoArbiter"
    /\ stepper = "NoopStepper"
    /\ cancelCalls = 0
    /\ frame.limits.max_tokens = 0
    /\ pc = "idle"
    /\ runCalls = 2
    /\ stepCalls = 2
    /\ runRet = Ok(NoStepResult)
    /\ frame.state = "Finished"
    /\ frame.generated_token_ids = <<>>

\* C13 - The only changes of frame.state are Prefill to Decode and Decode
\* to Finished, both in a step call whose decision is Allow and which calls
\* the backend, the second only when tokens_generated >= limits.max_tokens
\* before the call, and any state to Cancelled, in a step call whose
\* decision is Refuse or in a cancel() call.
C13_StateMachine ==
    [][frame'.state # frame.state =>
          \/ /\ frame.state = "Prefill" /\ frame'.state = "Decode"
             /\ IsStepCall /\ decision' = Some("Allow")
             /\ stepperCalls' = stepperCalls + 1
          \/ /\ frame.state = "Decode" /\ frame'.state = "Finished"
             /\ IsStepCall /\ decision' = Some("Allow")
             /\ stepperCalls' = stepperCalls + 1
             /\ frame.tokens_generated >= frame.limits.max_tokens
          \/ /\ frame'.state = "Cancelled"
             /\ \/ IsStepCall /\ decision' = Some("Refuse")
                \/ IsCancelCall]_vars

\* C13 witness: an Allow-gated step call has just moved a Decode frame at
\* its limit to Finished
C13_Witness ==
    /\ frame.state = "Finished"
    /\ op = "step"
    /\ decision = Some("Allow")
    /\ ret = Ok(StepResult_finished("MaxTokens"))
    /\ frame.limits.max_tokens >= 1
    /\ frame.tokens_generated = frame.limits.max_tokens

\* this step of the model is a backend step called past the driver
IsDirectStepperCall ==
    op' = "stepper" /\ stepperCalls' = stepperCalls + 1 /\ stepCalls' = stepCalls

\* C14 - NoopStepper::step called on a Finished frame returns
\* Ok(Finished(MaxTokens)) and on a Cancelled frame Ok(Finished(Cancelled)),
\* and leaves every field of the frame as it was.
C14_StepperToleratesTerminal ==
    [][(IsDirectStepperCall /\ stepper = "NoopStepper" /\ IsTerminal(frame)) =>
          /\ frame' = frame
          /\ ret'.is_ok
          /\ frame.state = "Finished" => ret' = Ok(StepResult_finished("MaxTokens"))
          /\ frame.state = "Cancelled" => ret' = Ok(StepResult_finished("Cancelled"))]_vars

\* C14 witness: the no-op backend was stepped directly on a frame that had
\* been cancelled while it held a token
C14_Witness ==
    /\ stepper = "NoopStepper"
    /\ op = "stepper"
    /\ frame.state = "Cancelled"
    /\ frame.tokens_generated >= 1
    /\ ret = Ok(StepResult_finished("Cancelled"))

\* C15 - Every StepResult a step call returns is well-formed: its outcome is
\* one of the three; it has a stop reason exactly when the outcome is
\* Finished; it has a token only when the outcome is Advanced and the call
\* appended exactly that token to generated_token_ids, and a call that
\* appended a token reports it; Yielded and Finished results have no token.
C15_WellFormedResult ==
    [][(IsStepCall /\ ret'.is_ok) =>
          LET r == ret'.value
              old == frame.generated_token_ids
              new == frame'.generated_token_ids
          IN /\ r.outcome \in StepOutcome
             /\ (r.stop_reason # None) <=> (r.outcome = "Finished")
             /\ r.stop_reason # None =>
                   (Len(r.stop_reason) = 1 /\ r.stop_reason[1] \in StopReason)
             /\ r.emitted_token # None =>
                   /\ r.outcome = "Advanced"
                   /\ Len(r.emitted_token) = 1
                   /\ new = Append(old, r.emitted_token[1])
                   /\ new[Len(new)] = r.emitted_token[1]
             /\ new # old => r.emitted_token = Some(new[Len(new)])
             /\ r.outcome \in {"Yielded", "Finished"} => r.emitted_token = None]_vars

\* C15 witness: a step call has just returned Advanced with token 1, the
\* last element of the output log
C15_Witness ==
    /\ op = "step"
    /\ ret = Ok(StepResult_advanced(Some(1)))
    /\ frame.generated_token_ids = <<0, 1>>
    /\ yieldCalls >= 1

\* s is a prefix of t
IsPrefix(s, t) == Len(s) <= Len(t) /\ SubSeq(t, 1, Len(s)) = s

\* C16 - One bounded unit per call: a step call appends at most one token,
\* raises tokens_generated and cursor.position by at most one each and
\* moves the state along at most one edge (never Prefill to Finished); in
\* every step of the model the old generated_token_ids is a prefix of the
\* new one.
C16_OneUnitPerCall ==
    [][/\ IsStepCall =>
             /\ Len(frame'.generated_token_ids) - Len(frame.generated_token_ids) \in {0, 1}
             /\ frame'.tokens_generated - frame.tokens_generated \in {0, 1}
             /\ frame'.cursor.position - frame.cursor.position \in {0, 1}
             /\ frame.state = "Prefill" =>
                   frame'.state \in {"Prefill", "Decode", "Cancelled"}
             /\ frame.state = "Decode" =>
                   frame'.state \in {"Decode", "Finished", "Cancelled"}
             /\ frame'.state # frame.state =>
                   frame'.generated_token_ids = frame.generated_token_ids
       /\ IsPrefix(frame.generated_token_ids, frame'.generated_token_ids)]_vars

\* C16 witness: the third token has just been appended by a step call, with
\* yields and a run_to_completion loop in the history
C16_Witness ==
    /\ op = "step"
    /\ ret = Ok(StepResult_advanced(Some(2)))
    /\ frame.generated_token_ids = <<0, 1, 2>>
    /\ frame.cursor.position = 3
    /\ frame.state = "Decode"
    /\ pc = "running"

\* C17 - prompt_index <= length(prompt_token_ids) in every reachable state,
\* and no step of the model (step, run_to_completion, cancel) changes
\* prompt_token_ids, prompt_index or limits.max_tokens.
C17_PromptInvariant ==
    /\ [](frame.prompt_index <= Len(frame.prompt_token_ids))
    /\ [][/\ frame'.prompt_token_ids = frame.prompt_token_ids
          /\ frame'.prompt_index = frame.prompt_index
          /\ frame'.limits = frame.limits]_vars

\* C17 witness: a frame built with a one-token prompt has been run to
\* Finished and then cancelled
C17_Witness ==
    /\ frame.prompt_token_ids = <<7>>
    /\ frame.prompt_index = 0
    /\ frame.state = "Cancelled"
    /\ frame.tokens_generated = frame.limits.max_tokens
    /\ frame.limits.max_tokens >= 1
    /\ op = "cancel"
    /\ runRet = Ok(NoStepResult)

\* C18 - The token limit is never exceeded: in every reachable state
\* tokens_generated <= limits.max_tokens, and a Finished frame has
\* tokens_generated = limits.max_tokens.
C18_LimitNeverExceeded ==
    /\ frame.tokens_generated <= frame.limits.max_tokens
    /\ frame.state = "Finished" => frame.tokens_generated = frame.limits.max_tokens

\* C18 witness: under a host arbiter that also yielded, the frame is
\* Finished with exactly its 3 tokens
C18_Witness ==
    /\ arbiter.kind = "HostArbiter"
    /\ yieldCalls >= 1
    /\ frame.state = "Finished"
    /\ frame.limits.max_tokens = 3
    /\ frame.tokens_generated = 3

\* run_to_completion() has returned Ok from a Finished frame
ReturnedFinished ==
    pc = "idle" /\ runRet = Ok(NoStepResult) /\ frame.state = "Finished"

\* C19 - Liveness of the loop, no-op backend, arbiters that never refuse.
\* Under NoArbiter and under TickArbiter run_to_completion() eventually
\* returns from a Finished frame; so it does under any arbiter in every run
\* in which Allow-gated calls keep coming; it returns from a Finished frame
\* only.  A call that yields changes nothing and does not return, and once
\* an arbiter that yields ever after has begun to yield on a non-terminal
\* frame, run_to_completion() never returns.
C19_Liveness ==
    /\ (arbiter.kind \in {"NoArbiter", "TickArbiter"}) => <>ReturnedFinished
    /\ []<><<LiveIter /\ decision' = Some("Allow")>>_vars => <>ReturnedFinished
    /\ [](pc = "idle" => ReturnedFinished)
    /\ [][decision' = Some("Yield") => (pc' = "running" /\ frame' = frame)]_vars
    /\ []((arbiter.kind = "LateYieldArbiter" /\ arbiter.ticks = 0
              /\ ~IsTerminal(frame)) =>
             [](pc = "running" /\ ~IsTerminal(frame)))

\* C19 witness: the TickArbiter run with limit 3 has returned, seven
\* decisions and five Allow-gated calls after it began
C19_Witness ==
    /\ arbiter = [kind |-> "TickArbiter", ticks |-> 7]
    /\ frame.limits.max_tokens = 3
    /\ ReturnedFinished
    /\ frame.generated_token_ids = <<0, 1, 2>>

\* the smaller of two wide numbers
wide_min(x, y) == IF wide_geq(x, y) THEN y ELSE x

\* the wide number x + n, for a small n
wide_plus(x, n) == <<x[1] + ((x[2] + n) \div U16Range), (x[2] + n) % U16Range>>

\* C20 - With the no-op backend, in every reachable state cursor.position
\* is min(tokens_generated, 2^32 - 1); the state is Prefill only with
\* cursor.position = 0 and no token generated; a step call that emits a
\* token emits the cursor position before the call modulo 256; and so
\* generated_token_ids[i] = i mod 256 for every index i < 2^32.
C20_CursorAndTokens ==
    /\ [](/\ frame.cursor.position = wide_min(frame.tokens_generated, wide_u32_max)
          /\ frame.state = "Prefill" =>
                (frame.cursor.position = wide(0) /\ frame.tokens_generated = wide(0))
          /\ \A j \in 1..Len(frame.generated_token_ids.tail) :
                LET i == wide_plus(frame.generated_token_ids.base, j - 1) IN
                i[1] < U16Range =>
                   frame.generated_token_ids.tail[j] = i[2] % TokenModulus)
    /\ [][(op' = "step" /\ callParity' # callParity /\ ret'.is_ok
             /\ ret'.value.emitted_token # None) =>
             /\ frame.state = "Decode"
             /\ ret'.value.emitted_token =
                   Some(frame.cursor.position[2] % TokenModulus)]_vars

\* C20 witness: a run picked up three tokens before u32::MAX has generated
\* up to 2^32 + 1 tokens, its cursor resting at u32::MAX, the tokens at
\* indices 2^32 - 3 .. 2^32 - 1 being 253, 254, 255
C20_Witness ==
    /\ frame.tokens_generated = <<U16Range, 1>>
    /\ frame.cursor.position = wide_u32_max
    /\ frame.generated_token_ids.base = <<U16Range - 1, U16Range - 3>>
    /\ SubSeq(frame.generated_token_ids.tail, 1, 3) = <<253, 254, 255>>
    /\ Len(frame.generated_token_ids.tail) = 4

====
